---- MODULE Spec2Model ----
(***************************************************************************)
(* Model of the diff-viewer extension (src/src/diffPanel.ts,               *)
(* src/src/gitService.ts).                                                 *)
(*                                                                         *)
(* Spec      : DiffPanel.parseDiff, one action per branch of its line loop.*)
(* SpecPanel : DiffPanel.createOrShow / refresh / dispose as interleaved    *)
(*             async calls that suspend at the provider calls.             *)
(* SpecGit   : GitService.getDiffSummary, suspended at its two git calls.  *)
(* SpecWeb   : the script of the rendered document (inline editing), one   *)
(*             action per DOM event it listens to.                         *)
(*                                                                         *)
(* Strings are sequences of one-character strings.  An HTML row is a       *)
(* record of the holes of its template literal.                            *)
(***************************************************************************)
EXTENDS Integers, Sequences, FiniteSets, TLC

VARIABLES
    \* ---- parseDiff (diffPanel.ts:593-667)
    diff,        \* parameter diff
    filePath,    \* parameter filePath
    pc,          \* position in parseDiff: "call", "loop", "done"
    lines,       \* diff.split('\n')
    idx,         \* 1-based index of the line the for-of loop is at
    oldLine,
    newLine,
    inlineHtml,  \* [wrapper, rows]
    leftHtml,    \* sequence of rows
    rightHtml,   \* sequence of rows
    \* ---- DiffPanel / refresh (diffPanel.ts:5-98)
    currentPanel,   \* DiffPanel.currentPanel: FALSE = undefined
    currentBranch,  \* this.currentBranch
    title,          \* this.panel.title
    html,           \* this.panel.webview.html
    calls,          \* the refresh() invocations, in request order
    panels,         \* number of DiffPanel objects whose panel is not disposed
    \* ---- GitService.getDiffSummary (gitService.ts:61-119)
    gpc,            \* "idle", "numstat" / "status" (awaiting that git call), "done"
    stdout,         \* output of git diff --numstat
    results,        \* the array results
    statusOutput,   \* output of git diff --name-status
    execError,      \* which git call rejected: "none", "numstat", "status"
    ret,            \* how the call ended: [kind |-> "none" | "return" | "throw"]
    \* ---- the script of the document (diffPanel.ts:531-587)
    inlineEditingEnabled,  \* the script's variable
    textContent,           \* el.textContent of each row
    original,              \* el.dataset.original: <<>> unset, <<t>> the string t
    contenteditable,       \* whether el has the attribute contenteditable
    activeElement,         \* document.activeElement
    posts                  \* the saveEdit messages posted, in order

parseVars == <<diff, filePath, pc, lines, idx, oldLine, newLine,
               inlineHtml, leftHtml, rightHtml>>
panelVars == <<currentPanel, currentBranch, title, html, calls, panels>>
gitVars == <<gpc, stdout, results, statusOutput, execError, ret>>
vars == <<diff, filePath, pc, lines, idx, oldLine, newLine,
          inlineHtml, leftHtml, rightHtml,
          currentPanel, currentBranch, title, html, calls, panels,
          gpc, stdout, results, statusOutput, execError, ret,
          inlineEditingEnabled, textContent, original, contenteditable,
          activeElement, posts>>
webVars == <<inlineEditingEnabled, textContent, original, contenteditable,
             activeElement, posts>>

\* what the actions of one part leave unchanged
notParseVars == <<panelVars, gitVars, webVars>>
notPanelVars == <<parseVars, gitVars, webVars>>
notGitVars == <<parseVars, panelVars, webVars>>
notWebVars == <<parseVars, panelVars, gitVars>>

(***************************************************************************)
(* Bounds                                                                  *)
(***************************************************************************)
MaxLines == 3
MaxNumstatLines == 2
MaxStatusLines == 2
MaxPosts == 3

(***************************************************************************)
(* String helpers                                                          *)
(***************************************************************************)
startsWith(s, p) ==
    Len(s) >= Len(p) /\ SubSeq(s, 1, Len(p)) = p

substring(s, from) ==
    SubSeq(s, from + 1, Len(s))

RECURSIVE replaceAll(_, _, _)
replaceAll(s, c, rep) ==
    IF s = <<>> THEN <<>>
    ELSE (IF Head(s) = c THEN rep ELSE <<Head(s)>>) \o replaceAll(Tail(s), c, rep)

\* escapeHtml without its last replace call
escapeHtmlNoQuot(text) ==
    LET a == replaceAll(text, "&", <<"&", "a", "m", "p", ";">>)
        b == replaceAll(a, "<", <<"&", "l", "t", ";">>)
    IN  replaceAll(b, ">", <<"&", "g", "t", ";">>)

escapeHtml(text) ==
    LET a == replaceAll(text, "&", <<"&", "a", "m", "p", ";">>)
        b == replaceAll(a, "<", <<"&", "l", "t", ";">>)
        c == replaceAll(b, ">", <<"&", "g", "t", ";">>)
    IN  replaceAll(c, "\"", <<"&", "q", "u", "o", "t", ";">>)

RECURSIVE split(_, _)
split(s, sep) ==
    IF \A i \in 1..Len(s) : s[i] # sep THEN <<s>>
    ELSE LET k == CHOOSE i \in 1..Len(s) :
                      s[i] = sep /\ \A j \in 1..(i - 1) : s[j] # sep
         IN  <<SubSeq(s, 1, k - 1)>> \o split(SubSeq(s, k + 1, Len(s)), sep)

Digits == {"0", "1", "2", "3", "4", "5", "6", "7", "8", "9"}

digitValue(c) ==
    CASE c = "0" -> 0 [] c = "1" -> 1 [] c = "2" -> 2 [] c = "3" -> 3
      [] c = "4" -> 4 [] c = "5" -> 5 [] c = "6" -> 6 [] c = "7" -> 7
      [] c = "8" -> 8 [] c = "9" -> 9

RECURSIVE parseInt(_)
parseInt(ds) ==
    IF Len(ds) = 1 THEN digitValue(ds[1])
    ELSE 10 * parseInt(SubSeq(ds, 1, Len(ds) - 1)) + digitValue(ds[Len(ds)])

\* length of the longest run of digits of s that starts at position from
RECURSIVE digitRun(_, _)
digitRun(s, from) ==
    IF from <= Len(s) /\ s[from] \in Digits THEN 1 + digitRun(s, from + 1) ELSE 0


\* whether p occurs in s at (1-based) position from
occursAt(s, from, p) ==
    startsWith(SubSeq(s, from, Len(s)), p)

(***************************************************************************)
(* The hunk header pattern of line.match: "@@ -", digits (group 1), an     *)
(* optional comma, optional digits, " +", digits (group 2), an optional    *)
(* comma, optional digits, " @@", then anything.                           *)
(* [ok, oldStart, newStart]: the two capture groups as digit strings.      *)
(* Every quantifier is greedy and is followed by a character it cannot     *)
(* match, so the match is the one that takes each digit run whole.         *)
(***************************************************************************)
\* hunkMatch whose second group is taken from the old side: start of the
\* new side = start of the old side
hunkMatchOldForNew(line) ==
    LET n1 == digitRun(line, 5)
        p1 == 5 + n1
        c1 == IF occursAt(line, p1, <<",">>) THEN 1 ELSE 0
        n2 == digitRun(line, p1 + c1)
        p2 == p1 + c1 + n2
        p3 == p2 + 2
        n3 == digitRun(line, p3)
        p4 == p3 + n3
        c2 == IF occursAt(line, p4, <<",">>) THEN 1 ELSE 0
        p5 == p4 + c2 + digitRun(line, p4 + c2)
        ok == /\ startsWith(line, <<"@", "@", " ", "-">>)
              /\ n1 >= 1
              /\ occursAt(line, p2, <<" ", "+">>)
              /\ n3 >= 1
              /\ occursAt(line, p5, <<" ", "@", "@">>)
    IN  [ok |-> ok,
         oldStart |-> IF ok THEN SubSeq(line, 5, p1 - 1) ELSE <<>>,
         newStart |-> IF ok THEN SubSeq(line, 5, p1 - 1) ELSE <<>>]

hunkMatch(line) ==
    LET n1 == digitRun(line, 5)
        p1 == 5 + n1
        c1 == IF occursAt(line, p1, <<",">>) THEN 1 ELSE 0
        p2 == p1 + c1 + digitRun(line, p1 + c1)
        p3 == p2 + 2
        n3 == digitRun(line, p3)
        p4 == p3 + n3
        c2 == IF occursAt(line, p4, <<",">>) THEN 1 ELSE 0
        p5 == p4 + c2 + digitRun(line, p4 + c2)
        ok == /\ startsWith(line, <<"@", "@", " ", "-">>)
              /\ n1 >= 1
              /\ occursAt(line, p2, <<" ", "+">>)
              /\ n3 >= 1
              /\ occursAt(line, p5, <<" ", "@", "@">>)
    IN  [ok |-> ok,
         oldStart |-> IF ok THEN SubSeq(line, 5, p1 - 1) ELSE <<>>,
         newStart |-> IF ok THEN SubSeq(line, p3, p4 - 1) ELSE <<>>]

isMetadata(line) ==
    \/ startsWith(line, <<"d", "i", "f", "f", " ", "-", "-", "g", "i", "t">>)
    \/ startsWith(line, <<"i", "n", "d", "e", "x", " ">>)
    \/ startsWith(line, <<"-", "-", "-">>)
    \/ startsWith(line, <<"+", "+", "+">>)

(***************************************************************************)
(* Rows.  cls: the class after "diff-line" ("context" when there is none); *)
(* nums: the content of each line-num span, <<>> for an empty span and     *)
(* <<n>> for the number n; editable: the line-content span has class       *)
(* "editable"; dataFile/dataLine: its data-file and data-line attributes   *)
(* (<<>> when the span has none); text: the content of the span.           *)
(***************************************************************************)
Row(cls, nums, editable, dataFile, dataLine, text) ==
    [cls |-> cls, nums |-> nums, editable |-> editable,
     dataFile |-> dataFile, dataLine |-> dataLine, text |-> text]

emptyRow == Row("empty", <<<<>>>>, FALSE, <<>>, <<>>, <<>>)

contentWithoutPrefix(line) ==
    IF Len(line) > 0 THEN substring(line, 1) ELSE <<>>

\* contextContent that strips the first character whatever it is
contextContentStripAny(line) ==
    substring(line, 1)

contextContent(line) ==
    IF startsWith(line, <<" ">>) THEN substring(line, 1) ELSE line

hunkRows(line) ==
    [inline |-> Row("hunk", <<<<>>, <<>>>>, FALSE, <<>>, <<>>, escapeHtml(line)),
     left   |-> Row("hunk", <<<<>>>>, FALSE, <<>>, <<>>, escapeHtml(line)),
     right  |-> Row("hunk", <<<<>>>>, FALSE, <<>>, <<>>, escapeHtml(line))]

additionRows(line, escapedFile, n) ==
    [inline |-> Row("add", <<<<>>, <<n>>>>, TRUE, escapedFile, <<n>>,
                    escapeHtml(contentWithoutPrefix(line))),
     left   |-> emptyRow,
     right  |-> Row("add", <<<<n>>>>, TRUE, escapedFile, <<n>>,
                    escapeHtml(contentWithoutPrefix(line)))]

\* deletionRows with the left cell built like a context cell of the right pane
deletionRowsEditable(line, o) ==
    [inline |-> Row("del", <<<<o>>, <<>>>>, FALSE, <<>>, <<>>, escapeHtml(line)),
     left   |-> Row("del", <<<<o>>>>, TRUE, <<>>, <<o>>,
                    escapeHtml(contentWithoutPrefix(line))),
     right  |-> emptyRow]

deletionRows(line, o) ==
    [inline |-> Row("del", <<<<o>>, <<>>>>, FALSE, <<>>, <<>>, escapeHtml(line)),
     left   |-> Row("del", <<<<o>>>>, FALSE, <<>>, <<>>,
                    escapeHtml(contentWithoutPrefix(line))),
     right  |-> emptyRow]

contextRows(line, escapedFile, o, n) ==
    [inline |-> Row("context", <<<<o>>, <<n>>>>, TRUE, escapedFile, <<n>>,
                    escapeHtml(contextContent(line))),
     left   |-> Row("context", <<<<o>>>>, FALSE, <<>>, <<>>,
                    escapeHtml(contextContent(line))),
     right  |-> Row("context", <<<<n>>>>, TRUE, escapedFile, <<n>>,
                    escapeHtml(contextContent(line)))]

(***************************************************************************)
(* Inputs of parseDiff: diff texts of at most MaxLines lines, each drawn   *)
(* from DiffLines, joined with "\n".                                       *)
(***************************************************************************)
\* the decimal digits of n >= 0
RECURSIVE toDigits(_)
toDigits(n) ==
    LET d == CHOOSE c \in Digits : digitValue(c) = n % 10
    IN  IF n < 10 THEN <<d>> ELSE toDigits(n \div 10) \o <<d>>

\* a hunk header line; a count is <<>> when omitted, else its digits
hunkText(oldStart, oldCount, newStart, newCount, rest) ==
    <<"@", "@", " ", "-">> \o toDigits(oldStart)
        \o (IF oldCount = <<>> THEN <<>> ELSE <<",">> \o oldCount)
        \o <<" ", "+">> \o toDigits(newStart)
        \o (IF newCount = <<>> THEN <<>> ELSE <<",">> \o newCount)
        \o <<" ", "@", "@">> \o rest

HunkCases ==
    { [oldStart |-> 2, oldCount |-> <<"5">>, newStart |-> 13,
       newCount |-> <<>>, rest |-> <<" ", "<">>],
      [oldStart |-> 10, oldCount |-> <<>>, newStart |-> 0,
       newCount |-> <<"0">>, rest |-> <<>>] }

hunkLine(h) ==
    hunkText(h.oldStart, h.oldCount, h.newStart, h.newCount, h.rest)

\* the marker git prints after the last line of a file that does not end
\* in a newline
noNewline ==
    <<"\\", " ", "N", "o", " ", "n", "e", "w", "l", "i", "n", "e", " ",
      "a", "t", " ", "e", "n", "d", " ", "o", "f", " ", "f", "i", "l", "e">>

DiffLines ==
    { <<>>,                                                     \* ""
      <<"d", "i", "f", "f", " ", "-", "-", "g", "i", "t", " ", "a">>,
      <<"i", "n", "d", "e", "x", " ", "1">>,
      <<"-", "-", "-", " ", "a">>,                              \* "--- a"
      <<"+", "+", "+", "x">>,                                   \* "+++x"
      <<"@", "@", " ", "-", "a", " ", "+", "b", " ", "@", "@">>,
      <<"+", "a", "&">>,                                        \* "+a&"
      <<"-", ">">>,                                             \* "->"
      <<" ", " ", "c">>,                                        \* "  c"
      noNewline }
    \cup { hunkLine(h) : h \in HunkCases }

FilePaths == { <<"a", "\"", "b">> }

RECURSIVE join(_, _)
join(ls, sep) ==
    IF Len(ls) = 1 THEN ls[1]
    ELSE ls[1] \o <<sep>> \o join(Tail(ls), sep)

DiffTexts ==
    { join(ls, "\n") : ls \in UNION { [1..n -> DiffLines] : n \in 1..MaxLines } }

noInline == [wrapper |-> "none", rows |-> <<>>]

InitParse ==
    /\ diff \in DiffTexts
    /\ filePath \in FilePaths
    /\ pc = "call"
    /\ lines = <<>>
    /\ idx = 0
    /\ oldLine = 0
    /\ newLine = 0
    /\ inlineHtml = noInline
    /\ leftHtml = <<>>
    /\ rightHtml = <<>>

line == lines[idx]

inLoop == pc = "loop" /\ idx <= Len(lines)

\* emit that leaves the padding cells out of the split panes
emitNoPadding(rows) ==
    /\ inlineHtml' = [inlineHtml EXCEPT !.rows = Append(@, rows.inline)]
    /\ leftHtml' = IF rows.left = emptyRow THEN leftHtml
                   ELSE Append(leftHtml, rows.left)
    /\ rightHtml' = IF rows.right = emptyRow THEN rightHtml
                    ELSE Append(rightHtml, rows.right)

emit(rows) ==
    /\ inlineHtml' = [inlineHtml EXCEPT !.rows = Append(@, rows.inline)]
    /\ leftHtml' = Append(leftHtml, rows.left)
    /\ rightHtml' = Append(rightHtml, rows.right)

\* ParseEmpty without the early return: the empty text runs through the
\* loop and comes back wrapped in the diff-table element
ParseEmptyWrapped ==
    /\ pc = "call"
    /\ diff = <<>>
    /\ pc' = "done"
    /\ inlineHtml' = [wrapper |-> "closed", rows |-> <<>>]
    /\ lines' = <<<<>>>>
    /\ idx' = 2
    /\ UNCHANGED <<diff, filePath, oldLine, newLine, leftHtml, rightHtml>>
    /\ UNCHANGED notParseVars

\* if (!diff) return { inlineHtml: '', leftHtml: '', rightHtml: '' }
ParseEmpty ==
    /\ pc = "call"
    /\ diff = <<>>
    /\ pc' = "done"
    /\ UNCHANGED <<diff, filePath, lines, idx, oldLine, newLine,
                   inlineHtml, leftHtml, rightHtml>>
    /\ UNCHANGED notParseVars

ParseBegin ==
    /\ pc = "call"
    /\ diff # <<>>
    /\ lines' = split(diff, "\n")
    /\ inlineHtml' = [wrapper |-> "open", rows |-> <<>>]
    /\ leftHtml' = <<>>
    /\ rightHtml' = <<>>
    /\ oldLine' = 0
    /\ newLine' = 0
    /\ idx' = 1
    /\ pc' = "loop"
    /\ UNCHANGED <<diff, filePath>>
    /\ UNCHANGED notParseVars

SkipMetadata ==
    /\ inLoop
    /\ isMetadata(line)
    /\ idx' = idx + 1
    /\ UNCHANGED <<diff, filePath, pc, lines, oldLine, newLine,
                   inlineHtml, leftHtml, rightHtml>>
    /\ UNCHANGED notParseVars

HunkHeader ==
    /\ inLoop
    /\ ~isMetadata(line)
    /\ hunkMatch(line).ok
    /\ oldLine' = parseInt(hunkMatch(line).oldStart)
    /\ newLine' = parseInt(hunkMatch(line).newStart)
    /\ emit(hunkRows(line))
    /\ idx' = idx + 1
    /\ UNCHANGED <<diff, filePath, pc, lines>>
    /\ UNCHANGED notParseVars

Addition ==
    /\ inLoop
    /\ ~isMetadata(line)
    /\ ~hunkMatch(line).ok
    /\ startsWith(line, <<"+">>)
    /\ emit(additionRows(line, escapeHtml(filePath), newLine))
    /\ newLine' = newLine + 1
    /\ idx' = idx + 1
    /\ UNCHANGED <<diff, filePath, pc, lines, oldLine>>
    /\ UNCHANGED notParseVars

Deletion ==
    /\ inLoop
    /\ ~isMetadata(line)
    /\ ~hunkMatch(line).ok
    /\ ~startsWith(line, <<"+">>)
    /\ startsWith(line, <<"-">>)
    /\ emit(deletionRows(line, oldLine))
    /\ oldLine' = oldLine + 1
    /\ idx' = idx + 1
    /\ UNCHANGED <<diff, filePath, pc, lines, newLine>>
    /\ UNCHANGED notParseVars

Context ==
    /\ inLoop
    /\ ~isMetadata(line)
    /\ ~hunkMatch(line).ok
    /\ ~startsWith(line, <<"+">>)
    /\ ~startsWith(line, <<"-">>)
    /\ Len(line) > 0
    /\ emit(contextRows(line, escapeHtml(filePath), oldLine, newLine))
    /\ oldLine' = oldLine + 1
    /\ newLine' = newLine + 1
    /\ idx' = idx + 1
    /\ UNCHANGED <<diff, filePath, pc, lines>>
    /\ UNCHANGED notParseVars

SkipEmpty ==
    /\ inLoop
    /\ ~isMetadata(line)
    /\ ~hunkMatch(line).ok
    /\ Len(line) = 0
    /\ idx' = idx + 1
    /\ UNCHANGED <<diff, filePath, pc, lines, oldLine, newLine,
                   inlineHtml, leftHtml, rightHtml>>
    /\ UNCHANGED notParseVars

\* inlineHtml += '</div>'; return { inlineHtml, leftHtml, rightHtml }
ParseReturn ==
    /\ pc = "loop"
    /\ idx > Len(lines)
    /\ inlineHtml' = [inlineHtml EXCEPT !.wrapper = "closed"]
    /\ pc' = "done"
    /\ UNCHANGED <<diff, filePath, lines, idx, oldLine, newLine,
                   leftHtml, rightHtml>>
    /\ UNCHANGED notParseVars

(***************************************************************************)
(* parseDiff as a function: the result of running the loop above over      *)
(* every line of diff.                                                     *)
(***************************************************************************)
parseLine(st, l, escapedFile) ==
    LET put(rows, o, n) ==
            [oldLine |-> o, newLine |-> n,
             inline |-> Append(st.inline, rows.inline),
             left |-> Append(st.left, rows.left),
             right |-> Append(st.right, rows.right)]
    IN  IF isMetadata(l) THEN st
        ELSE IF hunkMatch(l).ok
             THEN put(hunkRows(l), parseInt(hunkMatch(l).oldStart),
                      parseInt(hunkMatch(l).newStart))
        ELSE IF startsWith(l, <<"+">>)
             THEN put(additionRows(l, escapedFile, st.newLine),
                      st.oldLine, st.newLine + 1)
        ELSE IF startsWith(l, <<"-">>)
             THEN put(deletionRows(l, st.oldLine), st.oldLine + 1, st.newLine)
        ELSE IF Len(l) > 0
             THEN put(contextRows(l, escapedFile, st.oldLine, st.newLine),
                      st.oldLine + 1, st.newLine + 1)
        ELSE st

RECURSIVE parseLines(_, _, _, _)
parseLines(ls, k, st, escapedFile) ==
    IF k > Len(ls) THEN st
    ELSE parseLines(ls, k + 1, parseLine(st, ls[k], escapedFile), escapedFile)

parseDiff(d, path) ==
    IF d = <<>>
    THEN [inlineHtml |-> noInline, leftHtml |-> <<>>, rightHtml |-> <<>>]
    ELSE LET st == parseLines(split(d, "\n"), 1,
                              [oldLine |-> 0, newLine |-> 0, inline |-> <<>>,
                               left |-> <<>>, right |-> <<>>],
                              escapeHtml(path))
         IN  [inlineHtml |-> [wrapper |-> "closed", rows |-> st.inline],
              leftHtml |-> st.left, rightHtml |-> st.right]

(***************************************************************************)
(* The panel: createOrShow and refresh (diffPanel.ts:53-98).               *)
(* The revision-data provider is a fixed repository: for each branch the   *)
(* summary git reports against it and the diff text of each file.  A       *)
(* provider call returns when its process ends, in any order; a failed     *)
(* getDiffSummary returns [] and a failed diff fetch gives ''.             *)
(***************************************************************************)
MaxCalls == 2

brMain == <<"m">>
brDev == <<"d", "<">>
Branches == {brMain, brDev}

DiffResult(file, status, additions, deletions) ==
    [file |-> file, status |-> status,
     additions |-> additions, deletions |-> deletions]

RepoSummary(branch) ==
    IF branch = brMain
    THEN << DiffResult(<<"a">>, "modified", 1, 1),
            DiffResult(<<"b">>, "added", 1, 0) >>
    ELSE << DiffResult(<<"b">>, "modified", 0, 1) >>

RepoDiff(branch, file) ==
    IF branch = brMain
    THEN IF file = <<"a">>
         THEN <<"@", "@", " ", "-", "1", " ", "+", "1", " ", "@", "@", "\n",
                "-", "o", "\n", "+", "n">>
         ELSE <<"+", "n">>
    ELSE IF file = <<"b">> THEN <<"-", "o">> ELSE <<>>

loadingHtml == [kind |-> "loading"]

getStatusIcon(status) ==
    CASE status = "added" -> "A"
      [] status = "modified" -> "M"
      [] status = "deleted" -> "D"
      [] status = "renamed" -> "R"
      [] OTHER -> "?"

\* getHtml reads this.currentBranch when it runs: branch is that value
getHtml(diffResults, fileDiffs, branch) ==
    [kind |-> "diff",
     heading |-> escapeHtml(branch),
     toc |-> [i \in 1..Len(diffResults) |->
                [status |-> diffResults[i].status,
                 icon |-> getStatusIcon(diffResults[i].status),
                 filename |-> escapeHtml(diffResults[i].file),
                 additions |-> diffResults[i].additions,
                 deletions |-> diffResults[i].deletions]],
     sections |-> IF Len(diffResults) = 0 THEN <<>>
                  ELSE [i \in 1..Len(fileDiffs) |->
                          LET r == fileDiffs[i].result
                              parsed == parseDiff(fileDiffs[i].diff, r.file)
                          IN  [dataFile |-> escapeHtml(r.file),
                               status |-> r.status,
                               icon |-> getStatusIcon(r.status),
                               additions |-> r.additions,
                               deletions |-> r.deletions,
                               inlineHtml |-> parsed.inlineHtml,
                               paneHeader |-> escapeHtml(branch),
                               leftHtml |-> parsed.leftHtml,
                               rightHtml |-> parsed.rightHtml]]]

titleOf(branch) == <<"D", "i", "f", "f", ":", " ">> \o branch

InitPanel ==
    /\ currentPanel = FALSE
    /\ currentBranch = <<>>
    /\ title = <<>>
    /\ html = [kind |-> "none"]
    /\ calls = <<>>
    /\ panels = 0

(***************************************************************************)
(* A refresh() invocation: pc "summary" while it awaits getDiffSummary,    *)
(* "file" while it awaits getFileDiff for diffResults[i], then "done"      *)
(* ("failed" when its last assignment throws because the panel was         *)
(* disposed while it ran).  arg is the branch passed to the provider call  *)
(* it awaits, started the value of this.currentBranch when it began.       *)
(* disposed: its panel was disposed; thisBranch is then the currentBranch  *)
(* field of that panel, which nothing assigns any more.                    *)
(***************************************************************************)
\* refresh() up to its first await; branch is this.currentBranch
refreshBegin(branch) ==
    /\ title' = titleOf(branch)
    /\ html' = loadingHtml
    /\ calls' = Append(calls, [pc |-> "summary", arg |-> branch,
                               diffResults |-> <<>>, fileDiffs |-> <<>>,
                               i |-> 0, wrote |-> [kind |-> "none"],
                               started |-> branch, disposed |-> FALSE,
                               thisBranch |-> <<>>])

\* createOrShow that never reuses the current panel
CreatePanelAlways(branch) ==
    /\ Len(calls) < MaxCalls
    /\ currentPanel' = TRUE
    /\ panels' = panels + 1
    /\ currentBranch' = branch
    /\ refreshBegin(branch)
    /\ UNCHANGED notPanelVars

\* createOrShow with no current panel
CreatePanel(branch) ==
    /\ ~currentPanel
    /\ Len(calls) < MaxCalls
    /\ currentPanel' = TRUE
    /\ panels' = panels + 1
    /\ currentBranch' = branch
    /\ refreshBegin(branch)
    /\ UNCHANGED notPanelVars

\* createOrShow with a current panel
ShowPanel(branch) ==
    /\ currentPanel
    /\ Len(calls) < MaxCalls
    /\ currentBranch' = branch
    /\ refreshBegin(branch)
    /\ UNCHANGED <<currentPanel, panels, notPanelVars>>

\* the 'refresh' message, posted by the script of a rendered document
RefreshMessage ==
    /\ currentPanel
    /\ html.kind = "diff"
    /\ Len(calls) < MaxCalls
    /\ refreshBegin(currentBranch)
    /\ UNCHANGED <<currentPanel, currentBranch, panels, notPanelVars>>

\* the user closes the panel: onDidDispose runs dispose().  The refreshes
\* of the panel that are still awaiting keep running on the disposed object.
Dispose ==
    /\ currentPanel
    /\ currentPanel' = FALSE
    /\ panels' = panels - 1
    /\ calls' = [c \in 1..Len(calls) |->
                   IF calls[c].pc \in {"summary", "file"} /\ ~calls[c].disposed
                   THEN [calls[c] EXCEPT !.disposed = TRUE,
                                         !.thisBranch = currentBranch]
                   ELSE calls[c]]
    /\ currentBranch' = <<>>
    /\ title' = <<>>
    /\ html' = [kind |-> "none"]
    /\ UNCHANGED notPanelVars

\* this.currentBranch as the refresh invocation c reads it
branchOf(c) ==
    IF calls[c].disposed THEN calls[c].thisBranch ELSE currentBranch

\* the rest of refresh() from the point where the for loop is at index i
\* with fileDiffs fd: either the next getFileDiff call or the final write
\* (assigning the html of a disposed webview throws)
refreshContinue(c, summary, fd, i) ==
    IF i <= Len(summary)
    THEN /\ calls' = [calls EXCEPT ![c] =
                        [@ EXCEPT !.pc = "file", !.arg = branchOf(c),
                                  !.diffResults = summary, !.fileDiffs = fd,
                                  !.i = i]]
         /\ UNCHANGED html
    ELSE IF calls[c].disposed
    THEN /\ calls' = [calls EXCEPT ![c] =
                        [@ EXCEPT !.pc = "failed", !.diffResults = summary,
                                  !.fileDiffs = fd, !.i = i]]
         /\ UNCHANGED html
    ELSE /\ html' = getHtml(summary, fd, currentBranch)
         /\ calls' = [calls EXCEPT ![c] =
                        [@ EXCEPT !.pc = "done", !.diffResults = summary,
                                  !.fileDiffs = fd, !.i = i,
                                  !.wrote = getHtml(summary, fd, currentBranch)]]

\* getDiffSummary returns
SummaryReturn(c) ==
    /\ calls[c].pc = "summary"
    /\ \E summary \in {RepoSummary(calls[c].arg), <<>>} :
           refreshContinue(c, summary, <<>>, 1)
    /\ UNCHANGED <<currentPanel, currentBranch, title, panels, notPanelVars>>

\* FileReturn whose catch block pushes nothing: a file whose fetch fails
\* gets no entry in fileDiffs
FileReturnDropFailed(c) ==
    /\ calls[c].pc = "file"
    /\ LET result == calls[c].diffResults[calls[c].i]
       IN  \/ refreshContinue(c, calls[c].diffResults,
                              Append(calls[c].fileDiffs,
                                     [result |-> result,
                                      diff |-> RepoDiff(calls[c].arg, result.file)]),
                              calls[c].i + 1)
           \/ refreshContinue(c, calls[c].diffResults, calls[c].fileDiffs,
                              calls[c].i + 1)
    /\ UNCHANGED <<currentPanel, currentBranch, title, panels, notPanelVars>>

\* getFileDiff returns or throws
FileReturn(c) ==
    /\ calls[c].pc = "file"
    /\ LET result == calls[c].diffResults[calls[c].i]
       IN  \E d \in {RepoDiff(calls[c].arg, result.file), <<>>} :
             refreshContinue(c, calls[c].diffResults,
                             Append(calls[c].fileDiffs,
                                    [result |-> result, diff |-> d]),
                             calls[c].i + 1)
    /\ UNCHANGED <<currentPanel, currentBranch, title, panels, notPanelVars>>

(***************************************************************************)
(* GitService.getDiffSummary.  A JavaScript number is <<n>> for the        *)
(* integer n and <<>> for NaN.  undefined (a missing array element) is the *)
(* record noValue.                                                         *)
(***************************************************************************)
whitespace == {" ", "\t"}

\* line.trim() is the empty string
isBlank(l) == \A k \in 1..Len(l) : l[k] \in whitespace

RECURSIVE filterTrim(_)
filterTrim(ls) ==
    IF ls = <<>> THEN <<>>
    ELSE IF isBlank(Head(ls)) THEN filterTrim(Tail(ls))
    ELSE <<Head(ls)>> \o filterTrim(Tail(ls))

\* output.split('\n').filter(line => line.trim())
outputLines(output) == filterTrim(split(output, "\n"))

\* the global parseInt(s, 10): an optional sign and the longest run of
\* digits after it, NaN when there is none
parseIntJs(s) ==
    LET neg == Len(s) > 0 /\ s[1] = "-"
        from == IF Len(s) > 0 /\ s[1] \in {"-", "+"} THEN 2 ELSE 1
        n == digitRun(s, from)
    IN  IF n = 0 THEN <<>>
        ELSE IF neg THEN <<0 - parseInt(SubSeq(s, from, from + n - 1))>>
        ELSE <<parseInt(SubSeq(s, from, from + n - 1))>>

\* numstatRecords without the test for '-'
RECURSIVE numstatRecordsNoDash(_)
numstatRecordsNoDash(ls) ==
    IF ls = <<>> THEN <<>>
    ELSE LET parts == split(Head(ls), "\t")
         IN  (IF Len(parts) >= 3
              THEN <<DiffResult(parts[3], "modified",
                                parseIntJs(parts[1]), parseIntJs(parts[2]))>>
              ELSE <<>>)
             \o numstatRecordsNoDash(Tail(ls))

\* the loop over the numstat lines
RECURSIVE numstatRecords(_)
numstatRecords(ls) ==
    IF ls = <<>> THEN <<>>
    ELSE LET parts == split(Head(ls), "\t")
         IN  (IF Len(parts) >= 3
              THEN <<DiffResult(parts[3], "modified",
                                IF parts[1] = <<"-">> THEN <<0>>
                                ELSE parseIntJs(parts[1]),
                                IF parts[2] = <<"-">> THEN <<0>>
                                ELSE parseIntJs(parts[2]))>>
              ELSE <<>>)
             \o numstatRecords(Tail(ls))

noValue == [undefined |-> TRUE]

\* the switch that compares the whole status field with the letter
statusOfWholeField(status) ==
    CASE status = <<"A">> -> "added"
      [] status = <<"D">> -> "deleted"
      [] status = <<"R">> -> "renamed"
      [] OTHER -> "modified"

\* the switch on status[0]
statusOf(status) ==
    IF Len(status) = 0 THEN "modified"
    ELSE CASE status[1] = "A" -> "added"
           [] status[1] = "D" -> "deleted"
           [] status[1] = "R" -> "renamed"
           [] OTHER -> "modified"

\* the entries set on statusMap, in order
RECURSIVE statusEntries(_)
statusEntries(ls) ==
    IF ls = <<>> THEN <<>>
    ELSE LET parts == split(Head(ls), "\t")
             status == Head(parts)
             fileParts == Tail(parts)
             fileName == IF fileParts = <<>> THEN noValue
                         ELSE fileParts[Len(fileParts)]
         IN  <<[key |-> fileName, value |-> statusOf(status)]>>
             \o statusEntries(Tail(ls))

\* statusMap.get(file) || 'modified': the entry set last wins
statusGet(entries, file) ==
    IF \E k \in 1..Len(entries) : entries[k].key = file
    THEN LET k == CHOOSE j \in 1..Len(entries) :
                     /\ entries[j].key = file
                     /\ \A m \in (j + 1)..Len(entries) : entries[m].key # file
         IN  entries[k].value
    ELSE "modified"

\* the loop that assigns result.status
joinStatus(rs, entries) ==
    [i \in 1..Len(rs) |-> [rs[i] EXCEPT !.status = statusGet(entries, rs[i].file)]]

\* outputs of git diff --numstat: "<added>\t<deleted>\t<path>" lines, "-"
\* for the counts of a binary file
NumstatLines ==
    { <<"1", "\t", "2", "\t", "a">>,
      <<"-", "\t", "-", "\t", "b">>,
      <<"0", "\t", "1", "3", "\t", "b">>,
      <<"1", "0", "\t", "0", "\t", "c">>,
      <<>> }

NumstatOutputs ==
    { join(ls, "\n") :
        ls \in UNION { [1..n -> NumstatLines] : n \in 1..MaxNumstatLines } }

\* outputs of git diff --name-status: "<status>\t<path>" lines, a rename
\* with its score and both paths
StatusLines ==
    { <<"A", "\t", "a">>,
      <<"D", "\t", "b">>,
      <<"R", "1", "0", "0", "\t", "o", "\t", "c">>,
      <<"M", "\t", "a">>,
      <<"R", "0", "9", "0", "\t", "o", "\t", "a">>,
      <<>> }

StatusOutputs ==
    { join(ls, "\n") :
        ls \in UNION { [1..n -> StatusLines] : n \in 1..MaxStatusLines } }

IdleGit ==
    /\ gpc = "idle"
    /\ stdout = <<>>
    /\ results = <<>>
    /\ statusOutput = <<>>
    /\ execError = "none"
    /\ ret = [kind |-> "none"]

\* getDiffSummary was called and awaits git diff --numstat
InitGit ==
    /\ gpc = "numstat"
    /\ stdout = <<>>
    /\ results = <<>>
    /\ statusOutput = <<>>
    /\ execError = "none"
    /\ ret = [kind |-> "none"]

\* git diff --numstat succeeds: parse its lines, then await --name-status
NumstatOk(out) ==
    /\ gpc = "numstat"
    /\ stdout' = out
    /\ results' = numstatRecords(outputLines(out))
    /\ gpc' = "status"
    /\ UNCHANGED <<statusOutput, execError, ret>>
    /\ UNCHANGED notGitVars

\* git diff --numstat rejects: the catch block
NumstatFail ==
    /\ gpc = "numstat"
    /\ execError' = "numstat"
    /\ ret' = [kind |-> "return", value |-> <<>>]
    /\ gpc' = "done"
    /\ UNCHANGED <<stdout, results, statusOutput>>
    /\ UNCHANGED notGitVars

\* git diff --name-status succeeds: build statusMap, join, return results
StatusOk(out) ==
    /\ gpc = "status"
    /\ statusOutput' = out
    /\ results' = joinStatus(results, statusEntries(outputLines(out)))
    /\ ret' = [kind |-> "return", value |-> results']
    /\ gpc' = "done"
    /\ UNCHANGED <<stdout, execError>>
    /\ UNCHANGED notGitVars

\* StatusFail with the second git call in a try block of its own, which
\* leaves the statuses as they are
StatusFailKeepsResults ==
    /\ gpc = "status"
    /\ execError' = "status"
    /\ ret' = [kind |-> "return", value |-> results]
    /\ gpc' = "done"
    /\ UNCHANGED <<stdout, results, statusOutput>>
    /\ UNCHANGED notGitVars

\* git diff --name-status rejects: the catch block
StatusFail ==
    /\ gpc = "status"
    /\ execError' = "status"
    /\ ret' = [kind |-> "return", value |-> <<>>]
    /\ gpc' = "done"
    /\ UNCHANGED <<stdout, results, statusOutput>>
    /\ UNCHANGED notGitVars

(***************************************************************************)
(* The script of the rendered document.  The document holds, for line 1 of *)
(* file "a", an editable row in the inline view and one in the right pane, *)
(* an editable row with data-line="0" (a context line before any hunk      *)
(* header), and the checkbox inlineEditingToggle.  Each posted message     *)
(* carries, besides its fields, the row it was posted for (el).            *)
(***************************************************************************)
Rows == {"inline1", "right1", "inline0"}
Elements == Rows \cup {"inlineEditingToggle"}

\* el.classList.contains('editable')
hasEditableClass(el) == el \in Rows

\* el.dataset.file, el.dataset.line
datasetFile(el) == <<"a">>
datasetLine(el) == IF el = "inline0" THEN <<"0">> ELSE <<"1">>

\* the text each row is rendered with, and the texts a user leaves in one
renderedText == "n"
Texts == {"n", "x"}

\* updateEditableState(), with the value enabled of inlineEditingEnabled
updateEditableState(enabled) ==
    IF enabled
    THEN /\ contenteditable' = [el \in Rows |-> TRUE]
         /\ original' = [el \in Rows |-> <<textContent[el]>>]
    ELSE /\ contenteditable' = [el \in Rows |-> FALSE]
         /\ UNCHANGED original

\* saveEdit that leaves el.dataset.original as it is
saveEditKeepsOriginal(el) ==
    LET file == datasetFile(el)
        ln == parseIntJs(datasetLine(el))
        content == textContent[el]
        orig == IF original[el] = <<>> THEN "" ELSE original[el][1]
    IN  IF content # orig /\ file # <<>> /\ ln # <<>> /\ ln # <<0>>
        THEN /\ posts' = Append(posts, [command |-> "saveEdit", file |-> file,
                                        line |-> ln[1], content |-> content,
                                        el |-> el])
             /\ UNCHANGED original
        ELSE UNCHANGED <<posts, original>>

\* saveEdit(el)
saveEdit(el) ==
    LET file == datasetFile(el)
        ln == parseIntJs(datasetLine(el))
        content == textContent[el]
        orig == IF original[el] = <<>> THEN "" ELSE original[el][1]
    IN  IF content # orig /\ file # <<>> /\ ln # <<>> /\ ln # <<0>>
        THEN /\ posts' = Append(posts, [command |-> "saveEdit", file |-> file,
                                        line |-> ln[1], content |-> content,
                                        el |-> el])
             /\ original' = [original EXCEPT ![el] = <<content>>]
        ELSE UNCHANGED <<posts, original>>

\* the script has run on the rendered document: inlineEditingEnabled holds
\* the panel's setting and updateEditableState() was called once
InitWeb ==
    /\ inlineEditingEnabled \in BOOLEAN
    /\ textContent = [el \in Rows |-> renderedText]
    /\ original = [el \in Rows |->
                     IF inlineEditingEnabled THEN <<renderedText>> ELSE <<>>]
    /\ contenteditable = [el \in Rows |-> inlineEditingEnabled]
    /\ activeElement = "body"
    /\ posts = <<>>

IdleWeb ==
    /\ inlineEditingEnabled = FALSE
    /\ textContent = [el \in Rows |-> renderedText]
    /\ original = [el \in Rows |-> <<>>]
    /\ contenteditable = [el \in Rows |-> FALSE]
    /\ activeElement = "body"
    /\ posts = <<>>

\* the focus moves to target (a row that can be edited, the checkbox, or
\* nothing): the element that had it gets a blur event, which the capturing
\* blur listener handles
Blur(target) ==
    /\ target \in Elements \cup {"body"}
    /\ target # activeElement
    /\ target \in Rows => contenteditable[target]
    /\ activeElement \in Elements
    /\ Len(posts) < MaxPosts
    /\ IF hasEditableClass(activeElement) /\ inlineEditingEnabled
       THEN saveEdit(activeElement)
       ELSE UNCHANGED <<posts, original>>
    /\ activeElement' = target
    /\ UNCHANGED <<inlineEditingEnabled, textContent, contenteditable>>
    /\ UNCHANGED notWebVars

\* an element gets the focus while none has it: no blur event
Focus(target) ==
    /\ activeElement = "body"
    /\ target \in Elements
    /\ target \in Rows => contenteditable[target]
    /\ activeElement' = target
    /\ UNCHANGED <<inlineEditingEnabled, textContent, original,
                   contenteditable, posts>>
    /\ UNCHANGED notWebVars

\* the user edits the row that has the focus
Input(t) ==
    /\ activeElement \in Rows
    /\ contenteditable[activeElement]
    /\ t # textContent[activeElement]
    /\ textContent' = [textContent EXCEPT ![activeElement] = t]
    /\ UNCHANGED <<inlineEditingEnabled, original, contenteditable,
                   activeElement, posts>>
    /\ UNCHANGED notWebVars

\* the keydown listener, for Ctrl+S or Cmd+S
KeydownCtrlS ==
    /\ Len(posts) < MaxPosts
    /\ IF /\ activeElement \in Elements
          /\ hasEditableClass(activeElement)
          /\ inlineEditingEnabled
       THEN saveEdit(activeElement)
       ELSE UNCHANGED <<posts, original>>
    /\ UNCHANGED <<inlineEditingEnabled, textContent, contenteditable,
                   activeElement>>
    /\ UNCHANGED notWebVars

\* the change listener of the checkbox, which has the focus when the user
\* switches it
ToggleChange ==
    /\ activeElement = "inlineEditingToggle"
    /\ inlineEditingEnabled' = ~inlineEditingEnabled
    /\ updateEditableState(~inlineEditingEnabled)
    /\ UNCHANGED <<textContent, activeElement, posts>>
    /\ UNCHANGED notWebVars

(***************************************************************************)
(* Specifications                                                          *)
(***************************************************************************)
\* the parts that a specification does not run stay as they are here
IdleParse ==
    /\ diff = <<>>
    /\ filePath = <<>>
    /\ pc = "done"
    /\ lines = <<>>
    /\ idx = 0
    /\ oldLine = 0
    /\ newLine = 0
    /\ inlineHtml = noInline
    /\ leftHtml = <<>>
    /\ rightHtml = <<>>

Init == InitParse /\ InitPanel /\ IdleGit /\ IdleWeb

Next ==
    \/ ParseEmpty
    \/ ParseBegin
    \/ SkipMetadata
    \/ HunkHeader
    \/ Addition
    \/ Deletion
    \/ Context
    \/ SkipEmpty
    \/ ParseReturn

Spec == Init /\ [][Next]_vars

InitPanelSpec == InitPanel /\ IdleParse /\ IdleGit /\ IdleWeb

NextPanel ==
    \/ \E branch \in Branches : CreatePanel(branch)
    \/ \E branch \in Branches : ShowPanel(branch)
    \/ RefreshMessage
    \/ Dispose
    \/ \E c \in 1..Len(calls) : SummaryReturn(c)
    \/ \E c \in 1..Len(calls) : FileReturn(c)

SpecPanel == InitPanelSpec /\ [][NextPanel]_vars

InitGitSpec == InitGit /\ IdleParse /\ InitPanel /\ IdleWeb

NextGit ==
    \/ \E out \in NumstatOutputs : NumstatOk(out)
    \/ NumstatFail
    \/ \E out \in StatusOutputs : StatusOk(out)
    \/ StatusFail

SpecGit == InitGitSpec /\ [][NextGit]_vars

InitWebSpec == InitWeb /\ IdleParse /\ InitPanel /\ IdleGit

NextWeb ==
    \/ \E target \in Elements \cup {"body"} : Blur(target)
    \/ \E target \in Elements : Focus(target)
    \/ \E t \in Texts : Input(t)
    \/ KeydownCtrlS
    \/ ToggleChange

SpecWeb == InitWebSpec /\ [][NextWeb]_vars

(***************************************************************************)
(* Properties of parseDiff (checked under Spec)                            *)
(***************************************************************************)
inlineRows == inlineHtml.rows

\* the indices, among the first k lines of ls, of the lines that are neither
\* metadata nor empty, in order
RECURSIVE emitters(_, _)
emitters(ls, k) ==
    IF k = 0 THEN <<>>
    ELSE IF isMetadata(ls[k]) \/ Len(ls[k]) = 0 THEN emitters(ls, k - 1)
    ELSE Append(emitters(ls, k - 1), k)

\* the cell shows the text of source line l, whole or without its marker
showsLine(cell, l) ==
    cell.text \in {escapeHtml(l), escapeHtml(SubSeq(l, 2, Len(l)))}

\* C1: the inline view, the left pane and the right pane always hold the
\* same number of rows, one for each line scanned so far that is neither
\* metadata nor empty, and the row at index i of each of the three is made
\* from the i-th such line (a padding cell stands for it in one pane of an
\* addition or a deletion).
C1_RowAlignment ==
    pc \in {"loop", "done"} =>
        LET e == emitters(lines, IF idx > 0 THEN idx - 1 ELSE 0)
        IN  /\ Len(inlineRows) = Len(e)
            /\ Len(leftHtml) = Len(e)
            /\ Len(rightHtml) = Len(e)
            /\ \A i \in 1..Len(e) :
                 /\ showsLine(inlineRows[i], lines[e[i]])
                 /\ leftHtml[i] = emptyRow \/ showsLine(leftHtml[i], lines[e[i]])
                 /\ rightHtml[i] = emptyRow \/ showsLine(rightHtml[i], lines[e[i]])
                 /\ ~(leftHtml[i] = emptyRow /\ rightHtml[i] = emptyRow)

C1_Witness ==
    /\ pc = "done"
    /\ Len(lines) = 3
    /\ Len(inlineRows) = 2
    /\ inlineRows[1].cls = "add"
    /\ inlineRows[2].cls = "del"

\* C2: for every addition row the left split cell is an empty padding cell
\* and the right cell is editable; for every deletion row the right split
\* cell is an empty padding cell and the left cell is not editable, and the
\* row is not editable in the inline view either.
C2_AdditionDeletionCells ==
    \A i \in 1..Len(inlineRows) :
        /\ inlineRows[i].cls = "add" =>
             /\ leftHtml[i].cls = "empty"
             /\ leftHtml[i].text = <<>>
             /\ leftHtml[i].nums = <<<<>>>>
             /\ rightHtml[i].cls = "add"
             /\ rightHtml[i].editable
        /\ inlineRows[i].cls = "del" =>
             /\ rightHtml[i].cls = "empty"
             /\ rightHtml[i].text = <<>>
             /\ rightHtml[i].nums = <<<<>>>>
             /\ leftHtml[i].cls = "del"
             /\ ~leftHtml[i].editable
             /\ ~inlineRows[i].editable

C2_Witness ==
    /\ pc = "done"
    /\ \E i, j \in 1..Len(inlineRows) :
         inlineRows[i].cls = "add" /\ inlineRows[j].cls = "del"

\* C3 (as claimed): every editable row carries a data-line >= 1.
C3_EditableLinePositive ==
    /\ \A i \in 1..Len(inlineRows) :
         inlineRows[i].editable =>
             inlineRows[i].dataLine # <<>> /\ inlineRows[i].dataLine[1] >= 1
    /\ \A i \in 1..Len(rightHtml) :
         rightHtml[i].editable =>
             rightHtml[i].dataLine # <<>> /\ rightHtml[i].dataLine[1] >= 1

\* C4 (as claimed): a step over a line that starts with '+' appends one
\* addition row numbered newLine and increments newLine only; a step over a
\* line that starts with '-' appends one deletion row numbered oldLine and
\* increments oldLine only.
C4_PlusMinusStep ==
    [][ /\ (inLoop /\ startsWith(line, <<"+">>)) =>
             /\ Len(inlineHtml'.rows) = Len(inlineRows) + 1
             /\ inlineHtml'.rows[Len(inlineRows) + 1].cls = "add"
             /\ inlineHtml'.rows[Len(inlineRows) + 1].nums = <<<<>>, <<newLine>>>>
             /\ newLine' = newLine + 1
             /\ oldLine' = oldLine
        /\ (inLoop /\ startsWith(line, <<"-">>)) =>
             /\ Len(inlineHtml'.rows) = Len(inlineRows) + 1
             /\ inlineHtml'.rows[Len(inlineRows) + 1].cls = "del"
             /\ inlineHtml'.rows[Len(inlineRows) + 1].nums = <<<<oldLine>>, <<>>>>
             /\ oldLine' = oldLine + 1
             /\ newLine' = newLine ]_vars

appended(old, new) == Len(new) = Len(old) + 1 /\ SubSeq(new, 1, Len(old)) = old

\* C5: a step over a hunk header written with starting positions oldStart
\* and newStart, with or without counts, leaves oldLine = oldStart and
\* newLine = newStart (not advanced) and appends exactly one hunk row, whose
\* text is the whole header line, to the inline view and to both panes.
C5_HunkHeaderResets ==
    [][ \A h \in HunkCases :
          (inLoop /\ line = hunkLine(h)) =>
             /\ oldLine' = h.oldStart
             /\ newLine' = h.newStart
             /\ appended(inlineRows, inlineHtml'.rows)
             /\ appended(leftHtml, leftHtml')
             /\ appended(rightHtml, rightHtml')
             /\ \A row \in {inlineHtml'.rows[Len(inlineRows) + 1],
                            leftHtml'[Len(leftHtml) + 1],
                            rightHtml'[Len(rightHtml) + 1]} :
                  /\ row.cls = "hunk"
                  /\ row.text = escapeHtml(line)
                  /\ ~row.editable
                  /\ \A k \in 1..Len(row.nums) : row.nums[k] = <<>> ]_vars

\* a header with a count on the old side only was followed by an addition,
\* numbered from the header's new start
C5_Witness ==
    \E i \in 1..(Len(inlineRows) - 1) :
        /\ inlineRows[i].cls = "hunk"
        /\ inlineRows[i + 1].cls = "add"
        /\ inlineRows[i + 1].dataLine = <<13>>
        /\ oldLine = 2

isContextLine(l) ==
    /\ Len(l) > 0
    /\ ~isMetadata(l)
    /\ ~hunkMatch(l).ok
    /\ l[1] \notin {"+", "-"}

\* C6: a step over a non-empty line that is not metadata, not a hunk header
\* and starts with neither '+' nor '-' appends exactly one context row to
\* each view: numbered oldLine and newLine, editable in the inline view and
\* the right pane, its text the line without one leading space (if it has
\* one); both counters then grow by 1.  A step over an empty line appends
\* nothing and changes no counter.
C6_ContextStep ==
    [][ /\ (inLoop /\ isContextLine(line)) =>
             LET text == escapeHtml(IF line[1] = " " THEN Tail(line) ELSE line)
                 in == inlineHtml'.rows[Len(inlineRows) + 1]
                 lf == leftHtml'[Len(leftHtml) + 1]
                 rt == rightHtml'[Len(rightHtml) + 1]
             IN  /\ appended(inlineRows, inlineHtml'.rows)
                 /\ appended(leftHtml, leftHtml')
                 /\ appended(rightHtml, rightHtml')
                 /\ Len(inlineHtml'.rows) = Len(leftHtml')
                 /\ Len(leftHtml') = Len(rightHtml')
                 /\ in.cls = "context" /\ lf.cls = "context" /\ rt.cls = "context"
                 /\ in.nums = <<<<oldLine>>, <<newLine>>>>
                 /\ lf.nums = <<<<oldLine>>>>
                 /\ rt.nums = <<<<newLine>>>>
                 /\ in.editable /\ in.dataLine = <<newLine>>
                 /\ rt.editable /\ rt.dataLine = <<newLine>>
                 /\ in.text = text /\ lf.text = text /\ rt.text = text
                 /\ oldLine' = oldLine + 1
                 /\ newLine' = newLine + 1
        /\ (inLoop /\ line = <<>>) =>
             /\ inlineHtml' = inlineHtml
             /\ leftHtml' = leftHtml
             /\ rightHtml' = rightHtml
             /\ oldLine' = oldLine
             /\ newLine' = newLine ]_vars

\* a context line with two leading spaces and one with none were rendered,
\* and an empty line was scanned
C6_Witness ==
    /\ pc = "done"
    /\ \E i, j \in 1..Len(inlineRows) :
         /\ inlineRows[i].cls = "context" /\ inlineRows[i].text = <<" ", "c">>
         /\ inlineRows[j].cls = "context" /\ inlineRows[j].text = noNewline
    /\ \E k \in 1..Len(lines) : lines[k] = <<>>

\* C7 (as claimed): a step over a line that starts with "@@" and is not a
\* parseable hunk header appends no row and changes neither counter.
C7_BadHeaderSkipped ==
    [][ (inLoop /\ startsWith(line, <<"@", "@">>) /\ ~hunkMatch(line).ok) =>
            /\ inlineHtml' = inlineHtml
            /\ leftHtml' = leftHtml
            /\ rightHtml' = rightHtml
            /\ oldLine' = oldLine
            /\ newLine' = newLine
            /\ idx' = idx + 1 ]_vars

\* C8 (as claimed): the text of a deletion row is the source line without
\* its first character, the same in the inline view and the split view.
C8_DeletionText ==
    pc \in {"loop", "done"} =>
        LET e == emitters(lines, IF idx > 0 THEN idx - 1 ELSE 0)
        IN  \A i \in 1..Len(inlineRows) :
              inlineRows[i].cls = "del" =>
                  /\ leftHtml[i].text = escapeHtml(SubSeq(lines[e[i]], 2, Len(lines[e[i]])))
                  /\ inlineRows[i].text = leftHtml[i].text

\* C9: parseDiff has a result for every input: the scan never reads past
\* the last line, its counters stay numbers, the call as a whole evaluates
\* to three outputs, which the scan returns; and for the empty string the
\* result is the empty string for the inline view and for both panes.
C9_TotalAndEmpty ==
    /\ pc = "call" =>
           LET r == parseDiff(diff, filePath)
           IN  /\ r.inlineHtml.wrapper \in {"none", "closed"}
               /\ Len(r.inlineHtml.rows) \in 0..MaxLines
               /\ Len(r.leftHtml) \in 0..MaxLines
               /\ Len(r.rightHtml) \in 0..MaxLines
    /\ pc = "loop" =>
           /\ idx \in 1..(Len(lines) + 1)
           /\ oldLine \in Nat
           /\ newLine \in Nat
    /\ pc = "done" =>
           parseDiff(diff, filePath) =
               [inlineHtml |-> inlineHtml, leftHtml |-> leftHtml,
                rightHtml |-> rightHtml]
    /\ (pc = "done" /\ diff = <<>>) =>
           /\ inlineHtml = noInline
           /\ leftHtml = <<>>
           /\ rightHtml = <<>>

C9_Witness ==
    pc = "done" /\ diff = <<>> /\ inlineHtml.wrapper = "none"

\* the four entities, by the character each stands for
entityOf(ch) ==
    CASE ch = "&" -> <<"&", "a", "m", "p", ";">>
      [] ch = "<" -> <<"&", "l", "t", ";">>
      [] ch = ">" -> <<"&", "g", "t", ";">>
      [] ch = "\"" -> <<"&", "q", "u", "o", "t", ";">>

special == {"&", "<", ">", "\""}

\* what a reader of the markup makes of s: each entity read as its
\* character, left to right; ok is FALSE when s holds a bare < > " or an &
\* that starts no entity
RECURSIVE unescape(_)
unescape(s) ==
    IF s = <<>> THEN [ok |-> TRUE, text |-> <<>>]
    ELSE IF Head(s) = "&"
    THEN IF \E ch \in special : startsWith(s, entityOf(ch))
         THEN LET ch == CHOOSE x \in special : startsWith(s, entityOf(x))
                  rest == unescape(substring(s, Len(entityOf(ch))))
              IN  [ok |-> rest.ok, text |-> <<ch>> \o rest.text]
         ELSE [ok |-> FALSE, text |-> <<>>]
    ELSE IF Head(s) \in special THEN [ok |-> FALSE, text |-> <<>>]
    ELSE LET rest == unescape(Tail(s))
         IN  [ok |-> rest.ok, text |-> <<Head(s)>> \o rest.text]

\* the cell embeds the source line l (whole or without its first character)
\* and the path, escaped
cellEscaped(cell, l, path) ==
    /\ unescape(cell.text).ok
    /\ cell.cls # "empty" =>
          unescape(cell.text).text \in {l, SubSeq(l, 2, Len(l))}
    /\ unescape(cell.dataFile).ok
    /\ cell.editable => unescape(cell.dataFile).text = path

\* C18: every cell a step appends embeds the text of the scanned line and
\* the file path with each of & < > " replaced by its entity: the cell holds
\* none of these characters bare, and reading the entities back gives the
\* source text.
C18_Escaped ==
    [][(inLoop /\ Len(inlineHtml'.rows) = Len(inlineRows) + 1) =>
          /\ cellEscaped(inlineHtml'.rows[Len(inlineRows) + 1], line, filePath)
          /\ cellEscaped(leftHtml'[Len(leftHtml) + 1], line, filePath)
          /\ cellEscaped(rightHtml'[Len(rightHtml) + 1], line, filePath)]_vars

\* rows were made from text holding &, < and >, under a path holding "
C18_Witness ==
    /\ pc = "done"
    /\ \E k \in 1..Len(filePath) : filePath[k] = "\""
    /\ \E i \in 1..Len(inlineRows) :
          /\ inlineRows[i].editable
          /\ inlineRows[i].text = <<"a", "&", "a", "m", "p", ";">>
    /\ \E i \in 1..Len(leftHtml) : leftHtml[i].text = <<"&", "g", "t", ";">>
    /\ \E i \in 1..Len(inlineRows) :
          /\ inlineRows[i].cls = "hunk"
          /\ \E k \in 1..Len(inlineRows[i].text) : inlineRows[i].text[k] = "&"

\* lines of git's output that belong to neither revision
isExtendedHeader(l) ==
    \/ startsWith(l, <<"n", "e", "w", " ", "f", "i", "l", "e", " ",
                       "m", "o", "d", "e">>)
    \/ startsWith(l, <<"d", "e", "l", "e", "t", "e", "d", " ", "f", "i", "l",
                       "e", " ", "m", "o", "d", "e">>)
    \/ startsWith(l, <<"s", "i", "m", "i", "l", "a", "r", "i", "t", "y", " ",
                       "i", "n", "d", "e", "x">>)
    \/ startsWith(l, <<"B", "i", "n", "a", "r", "y", " ", "f", "i", "l", "e",
                       "s">>)
    \/ startsWith(l, <<"\\", " ">>)

\* C19 (as claimed): a step over a line that belongs to neither revision
\* appends no row and advances neither oldLine nor newLine, so the numbers
\* of the editable rows stay the positions in the new revision.
C19_ExtendedHeaderSkipped ==
    [][(inLoop /\ isExtendedHeader(line)) =>
          /\ inlineHtml' = inlineHtml
          /\ leftHtml' = leftHtml
          /\ rightHtml' = rightHtml
          /\ oldLine' = oldLine
          /\ newLine' = newLine]_vars

(***************************************************************************)
(* Properties of the panel (checked under SpecPanel)                       *)
(***************************************************************************)
\* C10 (as claimed): once every refresh has finished, the panel shows the
\* document written by the refresh that was requested last.
C10_LatestRefreshShown ==
    (/\ currentPanel
     /\ Len(calls) >= 2
     /\ \A c \in 1..Len(calls) : calls[c].pc = "done") =>
        html = calls[Len(calls)].wrote

\* a refresh that is suspended at a provider call
inFlight(c) == calls[c].pc \in {"summary", "file"}

\* C11 (as claimed): requests to a panel are processed one at a time, so at
\* no time are two refreshes of the current panel in flight.
C11_OneRefreshInFlight ==
    \A c1, c2 \in 1..Len(calls) :
        (/\ inFlight(c1) /\ ~calls[c1].disposed
         /\ inFlight(c2) /\ ~calls[c2].disposed) => c1 = c2

\* the document that refresh c wrote
docOf(c) == calls[c].wrote

\* C15: the summary entries and the file sections of a written document are
\* in the order of the summary the refresh obtained, one section per record
\* at the same index; a file whose fetch failed is there with the rendering
\* of empty diff text.
C15_OrderKept ==
    \A c \in 1..Len(calls) :
        calls[c].pc = "done" =>
            LET rs == calls[c].diffResults
                fd == calls[c].fileDiffs
            IN  /\ rs \in {RepoSummary(calls[c].started), <<>>}
                /\ docOf(c).kind = "diff"
                /\ Len(docOf(c).toc) = Len(rs)
                /\ Len(docOf(c).sections) = Len(rs)
                /\ Len(fd) = Len(rs)
                /\ \A i \in 1..Len(rs) :
                      /\ docOf(c).toc[i].filename = escapeHtml(rs[i].file)
                      /\ docOf(c).toc[i].status = rs[i].status
                      /\ docOf(c).sections[i].dataFile = escapeHtml(rs[i].file)
                      /\ docOf(c).sections[i].status = rs[i].status
                      /\ fd[i].diff = <<>> =>
                            docOf(c).sections[i].inlineHtml
                                = parseDiff(<<>>, rs[i].file).inlineHtml

\* a document of two files, in summary order, the first fetch failed
C15_Witness ==
    \E c \in 1..Len(calls) :
        /\ calls[c].pc = "done"
        /\ Len(calls[c].diffResults) = 2
        /\ calls[c].fileDiffs[1].diff = <<>>
        /\ calls[c].fileDiffs[2].diff # <<>>
        /\ docOf(c).sections[1].dataFile = <<"a">>
        /\ docOf(c).sections[2].dataFile = <<"b">>

\* a step in which createOrShow ran: it started a refresh
\* C17: at most one panel exists and currentPanel is set exactly when one
\* does; a step that starts a refresh while there is a panel creates none,
\* one that starts a refresh while there is none creates exactly one.
C17_AtMostOnePanel ==
    [][/\ panels' \in {0, 1}
       /\ currentPanel' <=> (panels' = 1)
       /\ Len(calls') = Len(calls) + 1 =>
             /\ currentPanel => panels' = panels
             /\ ~currentPanel => panels' = 1 /\ panels = 0
             /\ calls'[Len(calls')].started = currentBranch'
             /\ ~calls'[Len(calls')].disposed]_vars

\* a panel was disposed while it refreshed, and createOrShow made a new one
C17_Witness ==
    /\ Len(calls) = 2
    /\ calls[1].disposed
    /\ ~calls[2].disposed
    /\ currentPanel
    /\ panels = 1

\* C20 (as claimed): a written document is built from the single base that
\* was current when its refresh began: the heading, every pane header and
\* every file's diff text.
C20_SingleBase ==
    \A c \in 1..Len(calls) :
        calls[c].pc = "done" =>
            /\ docOf(c).heading = escapeHtml(calls[c].started)
            /\ calls[c].diffResults \in {RepoSummary(calls[c].started), <<>>}
            /\ \A i \in 1..Len(calls[c].fileDiffs) :
                  /\ docOf(c).sections[i].paneHeader
                        = escapeHtml(calls[c].started)
                  /\ calls[c].fileDiffs[i].diff
                        \in {RepoDiff(calls[c].started,
                                      calls[c].fileDiffs[i].result.file), <<>>}

(***************************************************************************)
(* Properties of getDiffSummary (checked under SpecGit)                    *)
(***************************************************************************)
\* C12: getDiffSummary never throws, and when either git call failed it
\* returns the empty list, whatever the other call produced.
C12_FailsSoft ==
    /\ ret.kind # "throw"
    /\ gpc = "done" =>
          /\ ret.kind = "return"
          /\ execError # "none" => ret.value = <<>>

\* the second git call failed after the first had produced records
C12_Witness ==
    /\ gpc = "done"
    /\ execError = "status"
    /\ Len(results) = 2
    /\ ret = [kind |-> "return", value |-> <<>>]

\* the tab-separated fields of the k-th non-blank line of output
fieldsOf(output, k) == split(outputLines(output)[k], "\t")

\* the name-status tuples whose last field is exactly path
tuplesFor(path) ==
    { k \in 1..Len(outputLines(statusOutput)) :
        LET f == fieldsOf(statusOutput, k)
        IN  Len(f) >= 2 /\ f[Len(f)] = path }

\* the status a tuple's first field stands for
letterStatus(field) ==
    IF startsWith(field, <<"A">>) THEN "added"
    ELSE IF startsWith(field, <<"D">>) THEN "deleted"
    ELSE IF startsWith(field, <<"R">>) THEN "renamed"
    ELSE "modified"

\* C13: the status of each returned record is the one that the first letter
\* of the name-status tuple for exactly its path stands for (A added, D
\* deleted, R with any score renamed, else modified; the last tuple, should
\* the output name the path twice), and modified when no tuple names it.
C13_StatusJoin ==
    (gpc = "done" /\ execError = "none") =>
        \A i \in 1..Len(ret.value) :
            LET ts == tuplesFor(ret.value[i].file)
            IN  IF ts = {}
                THEN ret.value[i].status = "modified"
                ELSE LET k == CHOOSE x \in ts : \A y \in ts : y <= x
                     IN  ret.value[i].status
                            = letterStatus(fieldsOf(statusOutput, k)[1])

\* a record renamed by an R100 tuple next to one that no tuple names
C13_Witness ==
    /\ gpc = "done"
    /\ execError = "none"
    /\ Len(ret.value) = 2
    /\ ret.value[1].file = <<"c">> /\ ret.value[1].status = "renamed"
    /\ ret.value[2].file = <<"b">> /\ ret.value[2].status = "modified"
    /\ tuplesFor(<<"b">>) = {}
    /\ fieldsOf(statusOutput, 1)[1] = <<"R", "1", "0", "0">>

\* the count a numstat field stands for
countOf(field) == IF field = <<"-">> THEN <<0>> ELSE <<parseInt(field)>>

\* C14: each numstat line of three fields gives one record, in order, whose
\* additions and deletions are the numbers in the first two fields, 0 for a
\* field that is '-'; both are non-negative integers, in results and in the
\* list that is returned.
C14_Counts ==
    /\ gpc \in {"status", "done"} /\ execError # "numstat" =>
          /\ Len(results) = Len(outputLines(stdout))
          /\ \A i \in 1..Len(results) :
                LET f == fieldsOf(stdout, i)
                IN  /\ Len(f) >= 3
                    /\ results[i].file = f[3]
                    /\ results[i].additions = countOf(f[1])
                    /\ results[i].deletions = countOf(f[2])
    /\ ret.kind = "return" =>
          \A i \in 1..Len(ret.value) :
              /\ Len(ret.value[i].additions) = 1
              /\ ret.value[i].additions[1] \in Nat
              /\ Len(ret.value[i].deletions) = 1
              /\ ret.value[i].deletions[1] \in Nat

\* a binary file's record with both counts 0 was returned after a record
\* with counts read from digits
C14_Witness ==
    /\ gpc = "done"
    /\ execError = "none"
    /\ Len(ret.value) = 2
    /\ ret.value[1].deletions = <<13>>
    /\ fieldsOf(stdout, 2)[1] = <<"-">>
    /\ ret.value[2].additions = <<0>>
    /\ ret.value[2].deletions = <<0>>

(***************************************************************************)
(* Properties of the document's script (checked under SpecWeb)             *)
(***************************************************************************)
\* the content the extension last knew of row el: what the last message
\* posted for el carried, or the rendered text when there was none
lastKnown(el) ==
    IF \E k \in 1..Len(posts) : posts[k].el = el
    THEN LET k == CHOOSE j \in 1..Len(posts) :
                     /\ posts[j].el = el
                     /\ \A m \in (j + 1)..Len(posts) : posts[m].el # el
         IN  posts[k].content
    ELSE renderedText

====
